---- MODULE Spec2Model ----
(***************************************************************************)
(* dokuwiki2wikijs.py: the line-oriented rewrite passes of convert_file.   *)
(*                                                                         *)
(* A Python string is modelled as a sequence of one-character strings and  *)
(* a position is Python's, counted from 0.  The regular expressions of the *)
(* source are modelled by operators that follow the backtracking order of  *)
(* Python's re module (leftmost match, lazy quantifiers shortest first,    *)
(* optional groups tried present first).                                   *)
(***************************************************************************)
EXTENDS Integers, Sequences, FiniteSets, TLC

VARIABLES
    text,               \* the file's content, as read (convert_file, line 228)
    lines,              \* the document: the list every pass rewrites in place
    input,              \* the document as it was handed to the pass that runs
    pc,                 \* the position of the running program
    i,                  \* index of the line a pass works on (enumerate)
    line,               \* the loop's local copy of the line
    pos,                \* convert_links: the scan position
    dead_loop_counter,  \* convert_links: the dead-loop guard's counter
    match,              \* convert_links: what re.search returned last
    link,               \* convert_links: the replacement built last
    stdout,             \* indexes of the lines the guard reported (print)
    pass,               \* how many times convert_links ran on the document
    first,              \* the document as the first convert_links call returned it
    kind,               \* convert_wrap: the active class marker
    wrapping,           \* convert_wrap: inside a block
    pagename,           \* convert_file's fallback title
    metadata            \* get_metadata's result: the quoted title

vars == <<text, lines, input, pc, i, line, pos, dead_loop_counter, match, link,
          stdout, pass, first, kind, wrapping, pagename, metadata>>

-----------------------------------------------------------------------------
(* Bounds of the model. *)

MaxTokens == 4      \* tokens of a file given to convert_links
MaxMarkers == 4     \* markers that follow an unmatched opener on a line
MaxLines == 3       \* lines of a document given to the rest of convert_file

-----------------------------------------------------------------------------
(* Python's str operations. *)

LF == "\n"
BSL == "\\"

Min(a, b) == IF a < b THEN a ELSE b
Max(a, b) == IF a > b THEN a ELSE b

\* s[a:b]
slice(s, a, b) == SubSeq(s, Max(a, 0) + 1, Min(b, Len(s)))

\* s[k], "" past the end
char_at(s, k) == IF k >= 0 /\ k < Len(s) THEN s[k + 1] ELSE ""

\* s.startswith(prefix, k)
startswith_at(s, prefix, k) == slice(s, k, k + Len(prefix)) = prefix

startswith(s, prefix) == startswith_at(s, prefix, 0)

\* s.find(sub, start)
RECURSIVE find(_, _, _)
find(s, sub, start) ==
    IF start + Len(sub) > Len(s) THEN -1
    ELSE IF startswith_at(s, sub, start) THEN start
    ELSE find(s, sub, start + 1)

\* sub in s
contains(s, sub) == find(s, sub, 0) # -1

\* s.replace(old, new)
RECURSIVE replace(_, _, _)
replace(s, old, new) ==
    LET k == find(s, old, 0)
    IN  IF k = -1 THEN s
        ELSE slice(s, 0, k) \o new \o replace(slice(s, k + Len(old), Len(s)), old, new)

\* s.rstrip(c)
RECURSIVE rstrip(_, _)
rstrip(s, cs) ==
    IF s # <<>> /\ s[Len(s)] \in cs THEN rstrip(SubSeq(s, 1, Len(s) - 1), cs) ELSE s

RECURSIVE lstrip(_, _)
lstrip(s, cs) ==
    IF s # <<>> /\ s[1] \in cs THEN lstrip(Tail(s), cs) ELSE s

Whitespace == {" ", "\t", LF, "\r"}

\* s.strip()
strip(s) == lstrip(rstrip(s, Whitespace), Whitespace)

\* s.split(sep) for a one-character sep: the list of fields, empty ones kept
RECURSIVE split(_, _)
split(s, sep) ==
    LET k == find(s, <<sep>>, 0)
    IN  IF k = -1 THEN <<s>>
        ELSE <<slice(s, 0, k)>> \o split(slice(s, k + 1, Len(s)), sep)

\* s.partition(" ")[2]
partition_after(s, sep) ==
    LET k == find(s, <<sep>>, 0)
    IN  IF k = -1 THEN <<>> ELSE slice(s, k + 1, Len(s))

\* s.splitlines(): no empty last line after a final line break
RECURSIVE splitlines(_)
splitlines(s) ==
    LET k == find(s, <<LF>>, 0)
    IN  IF s = <<>> THEN <<>>
        ELSE IF k = -1 THEN <<s>>
        ELSE <<slice(s, 0, k)>> \o splitlines(slice(s, k + 1, Len(s)))

RECURSIVE concat(_)
concat(ss) == IF ss = <<>> THEN <<>> ELSE Head(ss) \o concat(Tail(ss))

-----------------------------------------------------------------------------
(* find_next_link_start *)

\* [m.span() for m in re.finditer(r"\$\$.*?\$\$", line)], scanning from `start`
RECURSIVE math_ranges_from(_, _)
math_ranges_from(s, start) ==
    LET open == find(s, <<"$", "$">>, start)
        close == find(s, <<"$", "$">>, open + 2)
    IN  IF open = -1 \/ close = -1 THEN {}
        ELSE IF \E k \in open + 2 .. close - 1 : char_at(s, k) = LF THEN
            \* "." does not match a line break: the match cannot start at `open`
            math_ranges_from(s, open + 1)
        ELSE {<<open, close + 2>>} \cup math_ranges_from(s, close + 2)

math_ranges(s) == math_ranges_from(s, 0)

\* (\[\[|\{\{) at position k
is_open(s, k) == slice(s, k, k + 2) \in {<<"[", "[">>, <<"{", "{">>}

\* (\]\]|\}\}) at position k
is_close(s, k) == slice(s, k, k + 2) \in {<<"]", "]">>, <<"}", "}">>}

in_math(ranges, link_start) == \E r \in ranges : r[1] <= link_start /\ link_start < r[2]

\* the loop over re.finditer(r"(\[\[|\{\{)", line[pos:]): matches do not overlap
RECURSIVE finditer_open(_, _, _)
finditer_open(s, k, ranges) ==
    IF k + 2 > Len(s) THEN -1
    ELSE IF is_open(s, k) THEN
        IF in_math(ranges, k) THEN finditer_open(s, k + 2, ranges) ELSE k
    ELSE finditer_open(s, k + 1, ranges)

find_next_link_start(s, p) == finditer_open(s, p, math_ranges(s))

-----------------------------------------------------------------------------
(* The marker pattern of convert_links:                                    *)
(*   (\[\[|\{\{)(?P<uri>[^\|]+?)(\|(?P<text>.+?)?)?(\]\]|\}\})             *)
(* A match is [ok, start, end, uri, text]; text = <<>> stands for None     *)
(* (the text group never matches the empty string).                        *)

NoMatch == [ok |-> FALSE, start |-> -1, end |-> -1, uri |-> <<>>, text |-> <<>>]

\* (?P<text>.+?) then the close: the text is s[p:e], tried shortest first
RECURSIVE match_text(_, _, _)
match_text(s, p, e) ==
    IF e > Len(s) \/ char_at(s, e - 1) = LF THEN -1
    ELSE IF is_close(s, e) THEN e
    ELSE match_text(s, p, e + 1)

\* (?P<uri>[^\|]+?) and what follows it: the uri is s[st+2:q], tried shortest first
RECURSIVE match_uri(_, _, _)
match_uri(s, st, q) ==
    IF q > Len(s) \/ char_at(s, q - 1) = "|" THEN NoMatch
    ELSE IF char_at(s, q) = "|" THEN
        LET e == match_text(s, q + 1, q + 2)
        IN  IF e # -1 THEN
                [ok |-> TRUE, start |-> st, end |-> e + 2,
                 uri |-> slice(s, st + 2, q), text |-> slice(s, q + 1, e)]
            ELSE IF is_close(s, q + 1) THEN
                [ok |-> TRUE, start |-> st, end |-> q + 3,
                 uri |-> slice(s, st + 2, q), text |-> <<>>]
            ELSE NoMatch
    ELSE IF is_close(s, q) THEN
        [ok |-> TRUE, start |-> st, end |-> q + 2,
         uri |-> slice(s, st + 2, q), text |-> <<>>]
    ELSE match_uri(s, st, q + 1)

\* the pattern anchored at position st
match_at(s, st) == IF is_open(s, st) THEN match_uri(s, st, st + 3) ELSE NoMatch

\* re.search(pattern, s[start:]), with the positions of s
RECURSIVE re_search(_, _)
re_search(s, start) ==
    IF start + 2 > Len(s) THEN NoMatch
    ELSE LET m == match_at(s, start)
         IN  IF m.ok THEN m ELSE re_search(s, start + 1)

-----------------------------------------------------------------------------
(* The replacement template of re.sub: a backslash in `repl` is an escape. *)
(* A known escape yields its control character, a backslash before any     *)
(* other ASCII letter is an error (re.error: bad escape), a backslash      *)
(* before a non-alphanumeric character stays.  The alphabet of the model   *)
(* holds no digit and no "<", so group references (\1, \g<uri>) are not    *)
(* modelled: "\g" is the error it is without a "<".                        *)

AsciiLetters ==
    {"a", "b", "c", "d", "e", "f", "g", "h", "i", "j", "k", "l", "m",
     "n", "o", "p", "q", "r", "s", "t", "u", "v", "w", "x", "y", "z",
     "A", "B", "C", "D", "E", "F", "G", "H", "I", "J", "K", "L", "M",
     "N", "O", "P", "Q", "R", "S", "T", "U", "V", "W", "X", "Y", "Z"}

Escapes ==
    [c \in {"a", "b", "f", "n", "r", "t", "v", BSL} |->
        CASE c = "a" -> "\\a" [] c = "b" -> "\\b" [] c = "f" -> "\f"
          [] c = "n" -> LF [] c = "r" -> "\r" [] c = "t" -> "\t"
          [] c = "v" -> "\\v" [] c = BSL -> BSL]

RECURSIVE expand_template(_)
expand_template(t) ==
    IF t = <<>> THEN [ok |-> TRUE, out |-> <<>>]
    ELSE IF Head(t) # BSL THEN
        LET r == expand_template(Tail(t))
        IN  [ok |-> r.ok, out |-> <<Head(t)>> \o r.out]
    ELSE IF Len(t) = 1 THEN [ok |-> FALSE, out |-> <<>>]
    ELSE LET c == t[2]
             r == expand_template(SubSeq(t, 3, Len(t)))
         IN  IF c \in DOMAIN Escapes THEN [ok |-> r.ok, out |-> <<Escapes[c]>> \o r.out]
             ELSE IF c \in AsciiLetters THEN [ok |-> FALSE, out |-> <<>>]
             ELSE [ok |-> r.ok, out |-> <<BSL, c>> \o r.out]

\* re.sub(pattern, repl, s, count=1): the FIRST match in s, from position 0
re_sub(s, repl) ==
    LET m == re_search(s, 0)
        t == expand_template(repl)
    IN  IF ~m.ok THEN [ok |-> TRUE, out |-> s]
        ELSE IF ~t.ok THEN [ok |-> FALSE, out |-> s]
        ELSE [ok |-> TRUE, out |-> slice(s, 0, m.start) \o t.out \o slice(s, m.end, Len(s))]

-----------------------------------------------------------------------------
(* convert_links: the body of the while loop. *)

http == <<"h", "t", "t", "p">>

\* lines 113-115: the captured uri, ":" made "/" unless it starts with http
uri_path(m) ==
    LET uri == rstrip(m.uri, {"|"})
    IN  IF ~startswith(uri, http) THEN replace(uri, <<":">>, <<"/">>) ELSE uri

\* lines 119-120: an internal uri starts at the root
link_uri(m) ==
    LET uri == uri_path(m)
    IN  IF ~startswith(uri, http) /\ ~startswith(uri, <<"/">>) THEN <<"/">> \o uri ELSE uri

\* a slip: the label taken after the uri was rooted
link_text_rooted(m) == IF m.text = <<>> THEN link_uri(m) ELSE m.text

\* lines 112, 116-117: the label, taken before the uri is rooted
link_text(m) == IF m.text = <<>> THEN uri_path(m) ELSE m.text

\* line 121: "[%s](%s)" % (text, uri)
make_link(m) == <<"[">> \o link_text(m) \o <<"]", "(">> \o link_uri(m) \o <<")">>

\* One iteration of `while pos != -1` (lines 108-133) from the locals
\* (line, pos, dead_loop_counter): the locals after it and how it ends.
while_body(s, p, counter) ==
    LET m == re_search(s, p)
        sub == IF m.ok THEN re_sub(s, make_link(m)) ELSE [ok |-> TRUE, out |-> s]
        newpos == find_next_link_start(sub.out, p)
        newcounter == IF p >= newpos THEN counter + 1 ELSE counter
    IN  IF ~sub.ok THEN
            [end |-> "re.error", line |-> s, pos |-> p, counter |-> counter,
             match |-> m, link |-> make_link(m)]
        ELSE
            [end |-> IF newcounter > 2 THEN "break" ELSE "continue",
             line |-> sub.out, pos |-> newpos, counter |-> newcounter,
             match |-> m,
             link |-> IF m.ok THEN make_link(m) ELSE <<>>]

-----------------------------------------------------------------------------
(* The documents given to convert_links.  A file is a sequence of at most  *)
(* MaxTokens tokens (markers of every shape the pattern tells apart, a     *)
(* math delimiter, an opener with no valid uri, a line break), or one line *)
(* that sets an opener with no valid uri before up to MaxMarkers markers.  *)

Marker == <<"[", "[", "a", ":", "b", "]", "]">>                         \* [[a:b]]
MarkerHttp == <<"[", "[">> \o http \o <<":", "c", "|", "t", "]", "]">>  \* [[http:c|t]]
MarkerMedia == <<"{", "{", "/", "d", "|", "}", "}">>                    \* {{/d|}}
MarkerHttpBare == <<"{", "{">> \o http \o <<":", "e", "}", "}">>        \* {{http:e}}
MarkerEscape == <<"[", "[", "a", "|", BSL, "q", "]", "]">>              \* [[a|\q]]
BadOpen == <<"[", "[", "|">>                                            \* [[|
Dollars == <<"$", "$">>

LinkTokens ==
    {Marker, MarkerHttp, MarkerMedia, MarkerHttpBare, MarkerEscape, BadOpen, Dollars, <<LF>>}

RECURSIVE repeat(_, _)
repeat(s, n) == IF n = 0 THEN <<>> ELSE s \o repeat(s, n - 1)

LinkTexts ==
    {concat(ts) : ts \in UNION {[1..n -> LinkTokens] : n \in 0..MaxTokens}}
    \cup {BadOpen \o repeat(Marker, n) : n \in 0..MaxMarkers}

IsInfo == <<"{", ".", "i", "s", "-", "i", "n", "f", "o", "}">>

\* the variables a pass does not use
LinksIdle == /\ kind = IsInfo /\ wrapping = FALSE /\ pagename = <<>> /\ metadata = <<>>

\* convert_file, lines 227-229: the file is read, split and handed to convert_links
Init ==
    /\ text \in LinkTexts
    /\ lines = splitlines(text)
    /\ input = lines
    /\ pc = "for"
    /\ i = 0
    /\ line = <<>>
    /\ pos = -1
    /\ dead_loop_counter = 0
    /\ match = NoMatch
    /\ link = <<>>
    /\ stdout = <<>>
    /\ pass = 1
    /\ first = <<>>
    /\ LinksIdle

\* lines 104-106: the next line is taken and the scan starts
convert_links_for ==
    /\ pc = "for"
    /\ i < Len(lines)
    /\ line' = lines[i + 1]
    /\ pos' = find_next_link_start(lines[i + 1], 0)
    /\ dead_loop_counter' = 0
    /\ pc' = IF pos' = -1 THEN "store" ELSE "while"
    /\ UNCHANGED <<text, lines, input, i, match, link, stdout, pass, first,
                   kind, wrapping, pagename, metadata>>

\* lines 107-133: one iteration of the while loop
convert_links_while ==
    /\ pc = "while"
    /\ pos # -1
    /\ \E r \in {while_body(line, pos, dead_loop_counter)} :
           /\ line' = r.line
           /\ pos' = r.pos
           /\ dead_loop_counter' = r.counter
           /\ match' = r.match
           /\ link' = IF r.match.ok THEN r.link ELSE link
           /\ stdout' = IF r.end = "break" THEN Append(stdout, i) ELSE stdout
           /\ pc' = CASE r.end = "re.error" -> "re.error"
                      [] r.end = "break" -> "store"
                      [] OTHER -> IF r.pos = -1 THEN "store" ELSE "while"
    /\ UNCHANGED <<text, lines, input, i, pass, first,
                   kind, wrapping, pagename, metadata>>

\* line 134: the line is written back
convert_links_store ==
    /\ pc = "store"
    /\ lines' = [lines EXCEPT ![i + 1] = line]
    /\ i' = i + 1
    /\ pc' = "for"
    /\ UNCHANGED <<text, input, line, pos, dead_loop_counter, match, link, stdout,
                   pass, first, kind, wrapping, pagename, metadata>>

\* line 135
convert_links_return ==
    /\ pc = "for"
    /\ i = Len(lines)
    /\ pc' = "done"
    /\ UNCHANGED <<text, lines, input, i, line, pos, dead_loop_counter, match, link,
                   stdout, pass, first, kind, wrapping, pagename, metadata>>

\* convert_links is called again, on what it returned
convert_links_again ==
    /\ pc = "done"
    /\ pass = 1
    /\ first' = lines
    /\ pass' = 2
    /\ i' = 0
    /\ pc' = "for"
    /\ UNCHANGED <<text, lines, input, line, pos, dead_loop_counter, match, link,
                   stdout, kind, wrapping, pagename, metadata>>

Next ==
    \/ convert_links_for
    \/ convert_links_while
    \/ convert_links_store
    \/ convert_links_return

Spec == Init /\ [][Next]_vars

NextTwice == Next \/ convert_links_again

SpecTwice == Init /\ [][NextTwice]_vars

-----------------------------------------------------------------------------
(* The rest of convert_file: remove_useless_tags, convert_wrap,            *)
(* get_metadata, add_metadata.                                             *)

WRAP == <<"W", "R", "A", "P">>
OpenRaw == <<"<">> \o WRAP                            \* <WRAP
OpenEscaped == <<BSL, "<">> \o WRAP                   \* \<WRAP
CloseRaw == <<"<", "/">> \o WRAP \o <<">">>           \* </WRAP>
CloseEscaped == <<BSL, "<", "/">> \o WRAP \o <<BSL, ">">>   \* \</WRAP\>
Quote == <<">", " ">>

IsWarning == <<"{", ".", "i", "s", "-", "w", "a", "r", "n", "i", "n", "g", "}">>
IsDanger == <<"{", ".", "i", "s", "-", "d", "a", "n", "g", "e", "r", "}">>

info == <<"i", "n", "f", "o">>
notice == <<"n", "o", "t", "i", "c", "e">>
important == <<"i", "m", "p", "o", "r", "t", "a", "n", "t">>
warning == <<"w", "a", "r", "n", "i", "n", "g">>
caution == <<"c", "a", "u", "t", "i", "o", "n">>
alert == <<"a", "l", "e", "r", "t">>
danger == <<"d", "a", "n", "g", "e", "r">>
tip == <<"t", "i", "p">>
help == <<"h", "e", "l", "p">>
todo == <<"t", "o", "d", "o">>
safety == <<"s", "a", "f", "e", "t", "y">>

Range(f) == {f[x] : x \in DOMAIN f}

wrap_kind(tag) ==
    LET words == Range(split(tag, " "))
    IN  IF info \in words \/ notice \in words THEN IsInfo
        ELSE IF important \in words \/ warning \in words \/ caution \in words THEN IsWarning
        ELSE IF alert \in words \/ danger \in words THEN IsDanger
        ELSE IF tip \in words \/ help \in words \/ todo \in words THEN IsDanger
        ELSE IF safety \in words \/ danger \in words THEN IsDanger
        ELSE <<>>

\* line 158
is_opening(l) == startswith(l, OpenRaw) \/ startswith(l, OpenEscaped)

(* The body of convert_wrap's loop works on st = [line, out, kind,          *)
(* wrapping, end]: the local `line`, lines[i], the two locals, and "ok" or  *)
(* the exception raised.                                                    *)

\* lines 158-162: tag, line = line.split(">", 1) fails when the line has no ">"
wrap_open(st) ==
    LET k == find(st.line, <<">">>, 0)
    IN  IF ~is_opening(st.line) THEN st
        ELSE IF k = -1 THEN [st EXCEPT !.end = "ValueError"]
        ELSE [line |-> slice(st.line, k + 1, Len(st.line)),
              out |-> Quote \o slice(st.line, k + 1, Len(st.line)),
              kind |-> wrap_kind(slice(st.line, 0, k)),
              wrapping |-> TRUE,
              end |-> "ok"]

\* a slip: the closing tag is replaced and the block stays open
wrap_close_stays_open(st, tag) ==
    IF st.end = "ok" /\ contains(st.line, tag)
    THEN [st EXCEPT !.out = replace(st.out, tag, st.kind)]
    ELSE st

\* lines 163-165, and 166-168 with the escaped tag
wrap_close(st, tag) ==
    IF st.end = "ok" /\ contains(st.line, tag)
    THEN [st EXCEPT !.out = replace(st.out, tag, st.kind), !.wrapping = FALSE]
    ELSE st

\* a slip: the line is quoted whatever the state
wrap_quote_always(st) ==
    IF st.end = "ok" THEN [st EXCEPT !.out = Quote \o st.line] ELSE st

\* lines 169-170
wrap_quote(st) ==
    IF st.end = "ok" /\ st.wrapping THEN [st EXCEPT !.out = Quote \o st.line] ELSE st

\* lines 157-170
wrap_body(l, k, w) ==
    wrap_quote(wrap_close(wrap_close(
        wrap_open([line |-> l, out |-> l, kind |-> k, wrapping |-> w, end |-> "ok"]),
        CloseRaw), CloseEscaped))

Sortable == <<"s", "o", "r", "t", "a", "b", "l", "e">>
SortableOpen == <<BSL, "<">> \o Sortable \o <<BSL, ">">>          \* \<sortable\>
SortableClose == <<BSL, "<", "/">> \o Sortable \o <<BSL, ">">>    \* \</sortable\>

\* lines 216-222
remove_useless_tags(ls) ==
    [j \in 1..Len(ls) |-> replace(replace(ls[j], SortableOpen, <<>>), SortableClose, <<>>)]

\* lines 28-33: the title, or IndexError when line 0 is empty
first_heading_or_filename(ls, name) ==
    IF ls[1] = <<>> THEN [end |-> "IndexError", title |-> <<>>]
    ELSE IF ls[1][1] = "#" THEN [end |-> "ok", title |-> strip(partition_after(ls[1], " "))]
    ELSE [end |-> "ok", title |-> name]

\* lines 36-40: the value of the key "title"
get_metadata(ls, name) ==
    LET t == first_heading_or_filename(ls, name)
    IN  [end |-> t.end, title |-> <<"\"">> \o t.title \o <<"\"">>]

Dashes == <<"-", "-", "-">>
TitleKey == <<"t", "i", "t", "l", "e">>

\* lines 174-178, for the one key
add_metadata(ls, title) == <<Dashes, TitleKey \o <<":", " ">> \o title, Dashes>> \o ls

(* The documents: at most MaxLines lines, each one of FileLines. *)

Heading == <<"#", " ", "M", "y", " ", "T", "i", "t", "l", "e">>     \* # My Title
FileLines == {
    OpenRaw \o <<" ">> \o important \o <<">">>,               \* <WRAP important>
    OpenEscaped \o <<" ">> \o info \o <<BSL, ">">>,           \* \<WRAP info\>
    OpenRaw \o <<" ">> \o tip \o <<">", "a">> \o CloseRaw,    \* <WRAP tip>a</WRAP>
    OpenRaw \o <<" ">> \o alert,                              \* <WRAP alert
    OpenRaw \o CloseRaw,                                      \* <WRAP</WRAP>
    CloseRaw,                                                 \* </WRAP>
    <<"b">> \o CloseEscaped,                                  \* b\</WRAP\>
    <<"T", "e", "x", "t">>,                                   \* Text
    SortableOpen,                                             \* \<sortable\>
    Heading }

PageNames == {<<"m", "y", "p", "a", "g", "e">>, <<"s", "t", "a", "r", "t">>}

\* convert_file, after line 231: any document may come out of either branch
InitFile ==
    /\ lines \in UNION {[1..n -> FileLines] : n \in 1..MaxLines}
    /\ input = lines
    /\ text = <<>>
    /\ pc = "remove_useless_tags"
    /\ i = 0
    /\ line = <<>>
    /\ pos = -1
    /\ dead_loop_counter = 0
    /\ match = NoMatch
    /\ link = <<>>
    /\ stdout = <<>>
    /\ pass = 0
    /\ first = <<>>
    /\ LinksIdle

\* line 232; line 233 hands the result to convert_wrap
convert_file_tags ==
    /\ pc = "remove_useless_tags"
    /\ lines' = remove_useless_tags(lines)
    /\ input' = lines'
    /\ i' = 0
    /\ kind' = IsInfo
    /\ wrapping' = FALSE
    /\ pc' = "convert_wrap"
    /\ UNCHANGED <<text, line, pos, dead_loop_counter, match, link, stdout, pass, first,
                   pagename, metadata>>

\* lines 156-170: one line of convert_wrap
convert_wrap_for ==
    /\ pc = "convert_wrap"
    /\ i < Len(lines)
    /\ \E st \in {wrap_body(lines[i + 1], kind, wrapping)} :
           IF st.end = "ok" THEN
               /\ lines' = [lines EXCEPT ![i + 1] = st.out]
               /\ line' = st.line
               /\ kind' = st.kind
               /\ wrapping' = st.wrapping
               /\ i' = i + 1
               /\ pc' = pc
           ELSE
               /\ pc' = st.end
               /\ UNCHANGED <<lines, line, kind, wrapping, i>>
    /\ UNCHANGED <<text, input, pos, dead_loop_counter, match, link, stdout, pass, first,
                   pagename, metadata>>

\* line 171
convert_wrap_return ==
    /\ pc = "convert_wrap"
    /\ i = Len(lines)
    /\ pc' = "get_metadata"
    /\ UNCHANGED <<text, lines, input, i, line, pos, dead_loop_counter, match, link, stdout,
                   pass, first, kind, wrapping, pagename, metadata>>

\* line 235, for the title convert_file was called with
convert_file_metadata ==
    /\ pc = "get_metadata"
    /\ \E name \in PageNames :
        \E m \in {get_metadata(lines, name)} :
           /\ pagename' = name
           /\ metadata' = IF m.end = "ok" THEN m.title ELSE metadata
           /\ pc' = IF m.end = "ok" THEN "add_metadata" ELSE m.end
    /\ UNCHANGED <<text, lines, input, i, line, pos, dead_loop_counter, match, link, stdout,
                   pass, first, kind, wrapping>>

\* lines 236-238
convert_file_return ==
    /\ pc = "add_metadata"
    /\ lines' = add_metadata(lines, metadata)
    /\ pc' = "done"
    /\ UNCHANGED <<text, input, i, line, pos, dead_loop_counter, match, link, stdout,
                   pass, first, kind, wrapping, pagename, metadata>>

NextFile ==
    \/ convert_file_tags
    \/ convert_wrap_for
    \/ convert_wrap_return
    \/ convert_file_metadata
    \/ convert_file_return

SpecFile == InitFile /\ [][NextFile]_vars

-----------------------------------------------------------------------------
(* convert_links: the claims. *)

\* the texts of the math spans of a line, from left to right
RECURSIVE MathTextsFrom(_, _)
MathTextsFrom(s, from) ==
    LET after == {r \in math_ranges(s) : r[1] >= from}
        r == CHOOSE x \in after : \A y \in after : x[1] <= y[1]
    IN  IF after = {} THEN <<>>
        ELSE <<slice(s, r[1], r[2])>> \o MathTextsFrom(s, r[2])

MathTexts(s) == MathTextsFrom(s, 0)

\* C1: when convert_links has returned, every line holds the math spans its
\* input line held, each with the same text: no marker inside a span was rewritten.
C1_MathSpansKept ==
    pc = "done" => \A j \in 1..Len(lines) : MathTexts(lines[j]) = MathTexts(input[j])

\* the uri as the claims describe it: ":" made "/" unless it starts with http
ClaimPath(uri) == IF startswith(uri, http) THEN uri ELSE replace(uri, <<":">>, <<"/">>)

\* and rooted: one leading "/" unless it starts with http or with "/"
ClaimUri(uri) ==
    IF startswith(uri, http) \/ startswith(ClaimPath(uri), <<"/">>)
    THEN ClaimPath(uri)
    ELSE <<"/">> \o ClaimPath(uri)

Bracketed(label, uri) == <<"[">> \o label \o <<"]", "(">> \o uri \o <<")">>

\* C2 as stated: for a match with no text capture the label is the normalized
\* uri, the string between the parentheses.
C2_LabelIsNormalizedUri ==
    (match.ok /\ match.text = <<>>) =>
        link = Bracketed(ClaimUri(match.uri), ClaimUri(match.uri))

\* C2 as amended: for a match with no text capture the label is the uri with
\* ":" made "/" but without the leading "/" that roots the uri between the
\* parentheses.
C2_LabelIsUnrootedUri ==
    (match.ok /\ match.text = <<>>) =>
        link = Bracketed(ClaimPath(match.uri), ClaimUri(match.uri))

\* [[a:b]] alone was rewritten to [a/b](/a/b)
C2_Witness ==
    /\ pc = "done"
    /\ input = <<Marker>>
    /\ match.ok /\ match.text = <<>>
    /\ lines = <<Bracketed(<<"a", "/", "b">>, <<"/", "a", "/", "b">>)>>

\* C3: a second call of convert_links returns the document the first call returned.
C3_Idempotent == (pc = "done" /\ pass = 2) => lines = first

\* C4: convert_links never stops before its return: whatever the document, it
\* is in its loops, from where it goes on, or at its return; no error ends it.
C4_RunsToReturn == pc \in {"for", "while", "store", "done"}

\* C7: a substitution writes, in place of the marker it replaces, a link whose
\* uri is that marker's captured uri, unchanged when it starts with http and
\* else with ":" made "/" and rooted.
C7_WrittenUri ==
    [][(convert_links_while /\ match'.ok /\ pc' # "re.error") =>
        LET m == re_search(line, 0)
            tail == <<"]", "(">> \o ClaimUri(m.uri) \o <<")">>
                        \o slice(line, m.end, Len(line))
        IN  /\ slice(line', 0, m.start + 1) = slice(line, 0, m.start) \o <<"[">>
            /\ slice(line', Len(line') - Len(tail), Len(line')) = tail]_vars

\* a marker the pattern matches, outside the math spans of the line
OpenMarkers(s) ==
    {k \in 0..Len(s) : match_at(s, k).ok /\ ~in_math(math_ranges(s), k)}

\* C8: when the first opener of a line is one the pattern does not match, the
\* line convert_links returns holds no marker outside math spans that the
\* pattern still matches: all that followed the opener were rewritten.
C8_LaterMarkersRewritten ==
    pc = "done" =>
        \A j \in 1..Len(lines) :
            LET k == find_next_link_start(input[j], 0)
            IN  (k # -1 /\ ~match_at(input[j], k).ok) => OpenMarkers(lines[j]) = {}

-----------------------------------------------------------------------------
(* convert_wrap and get_metadata: the claims. *)

HasClose(l) == contains(l, CloseRaw) \/ contains(l, CloseEscaped)

\* the step of convert_wrap on a line taken while the block is open, or that opens one
WrappedStep == convert_wrap_for /\ i' = i + 1 /\ (wrapping \/ is_opening(lines[i + 1]))

\* C5 as stated: every line processed while the state is wrapping is output
\* with the prefix "> ", the line that carries the closing tag too.
C5_EveryLineQuoted ==
    [][WrappedStep => startswith(lines'[i + 1], Quote)]_vars

\* C5 as amended: every line processed while the state is wrapping is output
\* with the prefix "> ", but for a line that carries a closing tag and opens no
\* block: that line is output unprefixed, its closing tags replaced by the
\* class marker.
C5_QuotedButClosingLine ==
    [][WrappedStep =>
        IF HasClose(lines[i + 1]) /\ ~is_opening(lines[i + 1])
        THEN lines'[i + 1] = replace(replace(lines[i + 1], CloseRaw, kind), CloseEscaped, kind)
        ELSE startswith(lines'[i + 1], Quote)]_vars

\* <WRAP important>, Text, </WRAP> came out as "> ", "> Text", "{.is-warning}"
C5_Witness ==
    /\ pc = "get_metadata"
    /\ input = <<OpenRaw \o <<" ">> \o important \o <<">">>, <<"T", "e", "x", "t">>, CloseRaw>>
    /\ lines = <<Quote, Quote \o <<"T", "e", "x", "t">>, IsWarning>>

\* C6: get_metadata never fails, and the title it returns is, between double
\* quotes, the text after the first space of line 0 when line 0 starts with
\* "#", and the fallback page name otherwise.
C6_TitleOrFallback ==
    /\ pc # "IndexError"
    /\ pc = "add_metadata" =>
        metadata = <<"\"">>
            \o (IF startswith(lines[1], <<"#">>)
                THEN partition_after(lines[1], " ") ELSE pagename)
            \o <<"\"">>

\* the header of an opening line: the text before its first ">"
Header(l) == slice(l, 0, find(l, <<">">>, 0))

\* C9: after an opening line the active class is the class of the tag's words,
\* whether the tag is raw or escaped: that of the header without its backslashes.
C9_ClassIgnoresEscaping ==
    (pc = "convert_wrap" /\ i > 0 /\ is_opening(input[i])) =>
        kind = wrap_kind(replace(Header(input[i]), <<BSL>>, <<>>))

\* C10 in the terms of the claim.  A line carries an opening tag when it starts
\* with one and holds its ">", and a closing tag when one follows the header.
OpensBlock(l) ==
    (startswith(l, OpenRaw) \/ startswith(l, OpenEscaped)) /\ contains(l, <<">">>)

AfterHeader(l) == IF OpensBlock(l) THEN slice(l, find(l, <<">">>, 0) + 1, Len(l)) ELSE l

ClosesBlock(l) == HasClose(AfterHeader(l))

Tagged(l) == OpensBlock(l) \/ ClosesBlock(l)

\* the greatest member of a set of line numbers, 0 when it is empty
Last(js) == IF js = {} THEN 0 ELSE CHOOSE j \in js : \A k \in js : k <= j

\* the last of the first n lines that carried a tag, and that carried an opening tag
LastTagged(n) == Last({j \in 1..n : Tagged(input[j])})

LastOpening(n) == Last({j \in 1..n : OpensBlock(input[j])})

\* the state the claim gives after n lines
ClaimWrapping(n) ==
    LET j == LastTagged(n)
    IN  j # 0 /\ OpensBlock(input[j]) /\ ~ClosesBlock(input[j])

\* the class of the most recent opening tag, the initial one before any
ClaimKind(n) ==
    LET j == LastOpening(n)
    IN  IF j = 0 THEN IsInfo ELSE wrap_kind(Header(input[j]))

\* C10: after any number of lines, the state is wrapping exactly when the last
\* line that carried a tag carried an opening tag and no closing tag, and the
\* kind is that of the most recent opening tag; every closing tag was replaced
\* by the class of the most recent opening tag before it (the initial class
\* when there is none); and every line of a block that was not closed yet is
\* prefixed with "> ".
C10_OneKindOneState ==
    pc \in {"convert_wrap", "ValueError", "get_metadata"} =>
        /\ wrapping = ClaimWrapping(i)
        /\ kind = ClaimKind(i)
        /\ \A j \in 1..i :
            /\ ClosesBlock(input[j]) =>
                  lines[j] = (IF OpensBlock(input[j]) THEN Quote ELSE <<>>)
                      \o replace(replace(AfterHeader(input[j]), CloseRaw, ClaimKind(j)),
                                 CloseEscaped, ClaimKind(j))
            /\ ClaimWrapping(j) => lines[j] = Quote \o AfterHeader(input[j])

\* a second opening replaced the kind and its close returned to idle:
\* <WRAP important>, <WRAP tip>a</WRAP>, Text came out as "> ", "> a{.is-danger}", Text
C10_Witness ==
    /\ pc = "convert_wrap"
    /\ i = 3
    /\ input = <<OpenRaw \o <<" ">> \o important \o <<">">>,
                 OpenRaw \o <<" ">> \o tip \o <<">", "a">> \o CloseRaw,
                 <<"T", "e", "x", "t">>>>
    /\ lines = <<Quote, Quote \o <<"a">> \o IsDanger, <<"T", "e", "x", "t">>>>
    /\ ~wrapping

====
